---------------------------- MODULE Spec2Model ----------------------------
(***************************************************************************)
(* Language detection engine of the TTS voice agent                        *)
(* (src/modules/language_detector.py): LanguageDetector.detect and its     *)
(* helpers _validate_input, _detect_by_unicode and _detect_by_library;     *)
(* further the text input handler (src/modules/text_input.py) and the OCR  *)
(* engine's extract_from_bytes (src/modules/ocr_engine.py).                *)
(*                                                                         *)
(* A text is a sequence of Unicode code points.  A caller's argument is a  *)
(* record [kind, chars]: kind "str" is a Python str, "none" is None, "int" *)
(* is an integer (not subscriptable), "bytes" is a bytes object (it can    *)
(* be sliced but is no str).                                               *)
(*                                                                         *)
(* Percentages and confidences are exact fixed-point numbers: the integer  *)
(* v stands for v / Scale percent.  Scale is a multiple of every possible  *)
(* count of analyzable characters, so urdu_chars / total_chars * 100 is    *)
(* represented without rounding.                                           *)
(***************************************************************************)
EXTENDS Integers, Sequences, FiniteSets, TLC

(* ------------------------------ bounds --------------------------------- *)

\* Longest text built freely over Alphabet.
MaxLen == 4

\* Longest text of the form (Urdu letters)(Latin letters).
MaxRun == 10

\* Longest text built freely over Alphabet for the helpers called on their own.
MaxSample == 3

\* Longest text built freely over HandlerAlphabet for the text input handler.
MaxInput == 3

(* ------------------------- program constants --------------------------- *)

\* URDU_UNICODE_RANGES: inclusive (start, end) code point ranges.
URDU_UNICODE_RANGES ==
    << <<1536, 1791>>, <<1872, 1919>>, <<64336, 65023>>, <<65136, 65279>> >>

\* URDU_THRESHOLD * 100, in percent.
URDU_THRESHOLD_PERCENT == 30

\* The boost added to a percentage to make a confidence.
CONFIDENCE_BOOST == 20

\* The cap on a script confidence.
CONFIDENCE_CAP == 99

\* The confidence the script classifier must exceed to be accepted at once.
CONFIDENT_ABOVE == 70

\* The confidence of a text without analyzable characters.
NEUTRAL_CONFIDENCE == 50

\* Confidence of a library answer 'ur' or 'en'.
LIBRARY_CONFIDENCE == 95

\* Confidence of a library answer outside the supported languages.
LIBRARY_DEFAULT_CONFIDENCE == 60

\* Length of text_sample, and of the slice the debug log takes.
SAMPLE_LEN == 100

\* Minimum length of the stripped text.
MIN_LENGTH == 3

\* Code points c with chr(c).isspace() in Python 3; str.strip() strips the same.
WhitespaceCodePoints ==
    {9, 10, 11, 12, 13, 28, 29, 30, 31, 32, 133, 160, 5760} \cup (8192..8202)
        \cup {8232, 8233, 8239, 8287, 12288}

\* The characters of '.,!?;:\'"()-[]{}'.
PunctuationCodePoints ==
    {46, 44, 33, 63, 59, 58, 39, 34, 40, 41, 45, 91, 93, 123, 125}

\* Python's None, as the value of the Optional[str] field error.
None == "<None>"

(* ---------------------------- arithmetic ------------------------------- *)

Max(a, b) == IF a >= b THEN a ELSE b

Min(a, b) == IF a <= b THEN a ELSE b

RECURSIVE GCD(_, _)
GCD(a, b) == IF b = 0 THEN a ELSE GCD(b, a % b)

RECURSIVE LCMUpTo(_)
LCMUpTo(n) == IF n <= 1 THEN 1 ELSE LET l == LCMUpTo(n - 1) IN (l * n) \div GCD(l, n)

\* Fixed-point unit: v stands for v / Scale.
Scale == LCMUpTo(Max(MaxLen, MaxRun))

(* ------------------------------ inputs --------------------------------- *)

\* space, '!', '1', 'H', SEEN (U+0633)
Alphabet == {32, 33, 49, 72, 1587}

Rep(c, n) == [i \in 1..n |-> c]

ShortTexts == UNION {[1..k -> Alphabet] : k \in 0..MaxLen}

RunTexts == {Rep(1587, u) \o Rep(72, l) : u \in 0..MaxRun, l \in 0..MaxRun}

\* Texts around the length of text_sample: Latin letters (also after a
\* leading space) and punctuation only.  Their ratio is 0 or undefined, so
\* their percentages are exact whatever Scale is.
LongTexts ==
    UNION {{Rep(72, n), <<32>> \o Rep(72, n), Rep(33, n)} :
               n \in (SAMPLE_LEN - 1)..(SAMPLE_LEN + 1)}

Texts == ShortTexts \cup {t \in RunTexts : Len(t) <= MaxRun} \cup LongTexts

Str(chars) == [kind |-> "str", chars |-> chars]

\* None, 12345, b"abc"
NonStrings ==
    {[kind |-> "none", chars |-> <<>>], [kind |-> "int", chars |-> <<>>],
     [kind |-> "bytes", chars |-> <<72, 72, 72>>]}

Inputs == {Str(t) : t \in Texts} \cup NonStrings

\* Every punctuation character the classifier skips; the first and last code
\* point of each Urdu range and their outer neighbours; digits, symbols,
\* Latin letters; tab and no-break space.
BoundaryCodePoints ==
    PunctuationCodePoints
        \cup {1535, 1536, 1791, 1792, 1871, 1872, 1919, 1920,
              64335, 64336, 65023, 65024, 65135, 65136, 65279, 65280}
        \cup {48, 57, 35, 47, 64, 95, 72, 122, 9, 160}

\* "123 456 789"
DigitsText == <<49, 50, 51, 32, 52, 53, 54, 32, 55, 56, 57>>

SampleTexts ==
    UNION {[1..k -> Alphabet] : k \in 0..MaxSample}
        \cup {<<c>> : c \in BoundaryCodePoints}
        \cup {DigitsText}

\* Whitespace-only strings put before and after a text: "", " ", "\n\t",
\* and a no-break space.
Paddings == {<<>>, <<32>>, <<10, 9>>, <<160>>}

\* What a caller passes to the helpers: a text and then the same text between
\* two paddings, or a value that is no str.
Samples ==
    {<<Str(t), Str(a \o t \o b)>> : t \in SampleTexts, a \in Paddings, b \in Paddings}
        \cup {<<x>> : x \in NonStrings}


(* --------------------------- string helpers ---------------------------- *)

\* chr(c).isspace()
IsSpace(c) == c \in WhitespaceCodePoints

\* c in '.,!?;:\'"()-[]{}'
IsPunctuation(c) == c \in PunctuationCodePoints

RECURSIVE LStrip(_)
LStrip(s) == IF s # <<>> /\ IsSpace(Head(s)) THEN LStrip(Tail(s)) ELSE s

RECURSIVE RStrip(_)
RStrip(s) ==
    IF s # <<>> /\ IsSpace(s[Len(s)]) THEN RStrip(SubSeq(s, 1, Len(s) - 1)) ELSE s

\* text.strip()
Strip(s) == RStrip(LStrip(s))

\* text[:n]
Take(s, n) == SubSeq(s, 1, Min(n, Len(s)))

\* text[:50] succeeds: the value supports slicing (None and integers do not).
Sliceable(text) == text.kind \in {"str", "bytes"}

(* --------------------------- script classifier ------------------------- *)

\* Variant: the end of a range is exclusive.
InUrduRangeExclusiveEnd(c) ==
    \E i \in 1..Len(URDU_UNICODE_RANGES) :
        URDU_UNICODE_RANGES[i][1] <= c /\ c < URDU_UNICODE_RANGES[i][2]

\* The inner loop over URDU_UNICODE_RANGES: start <= char_code <= end.
InUrduRange(c) ==
    \E i \in 1..Len(URDU_UNICODE_RANGES) :
        URDU_UNICODE_RANGES[i][1] <= c /\ c <= URDU_UNICODE_RANGES[i][2]

\* The character loop of _detect_by_unicode: <<total_chars, urdu_chars>>.
\* One character adds its contribution to the two counters; a longer text is
\* the first half's contribution plus the second half's (the loop, folded in
\* halves to keep the evaluation shallow).
RECURSIVE CountChars(_)
CountChars(s) ==
    IF s = <<>> THEN <<0, 0>>
    ELSE IF Len(s) = 1
         THEN IF IsSpace(s[1]) \/ IsPunctuation(s[1]) THEN <<0, 0>>
              ELSE <<1, IF InUrduRange(s[1]) THEN 1 ELSE 0>>
    ELSE LET half == Len(s) \div 2
             front == CountChars(SubSeq(s, 1, half))
             back == CountChars(SubSeq(s, half + 1, Len(s)))
         IN  <<front[1] + back[1], front[2] + back[2]>>

\* Variant: integer division, urdu_chars // total_chars * 100.
UrduPercentageFloorDiv(urdu_chars, total_chars) ==
    ((urdu_chars \div total_chars) * 100) * Scale

\* (urdu_chars / total_chars) * 100, for total_chars > 0.
UrduPercentage(urdu_chars, total_chars) ==
    (urdu_chars * 100 * Scale) \div total_chars

\* Variant: the threshold itself counts as Urdu (>= instead of >).
IsUrduInclusive(urdu_percentage) ==
    urdu_percentage >= URDU_THRESHOLD_PERCENT * Scale

\* urdu_percentage > (self.URDU_THRESHOLD * 100)
IsUrdu(urdu_percentage) == urdu_percentage > URDU_THRESHOLD_PERCENT * Scale

\* Variant: the boost without the cap.
UrduConfidenceUncapped(urdu_percentage) ==
    urdu_percentage + CONFIDENCE_BOOST * Scale

\* min(urdu_percentage + 20, 99.0)
UrduConfidence(urdu_percentage) ==
    Min(urdu_percentage + CONFIDENCE_BOOST * Scale, CONFIDENCE_CAP * Scale)

\* Variant: the English confidence computed from the Urdu percentage.
EnglishConfidenceFromUrdu(urdu_percentage) ==
    Min(urdu_percentage + CONFIDENCE_BOOST * Scale, CONFIDENCE_CAP * Scale)

\* Variant: the English confidence without the boost.
EnglishConfidenceUnboosted(urdu_percentage) ==
    Min(100 * Scale - urdu_percentage, CONFIDENCE_CAP * Scale)

\* min((100 - urdu_percentage) + 20, 99.0)
EnglishConfidence(urdu_percentage) ==
    Min((100 * Scale - urdu_percentage) + CONFIDENCE_BOOST * Scale,
        CONFIDENCE_CAP * Scale)

\* The decision of _detect_by_unicode on the two counts.
ClassifyCounts(total_chars, urdu_chars) ==
    IF total_chars = 0
    THEN [language |-> "en", confidence |-> NEUTRAL_CONFIDENCE * Scale]
    ELSE LET urdu_percentage == UrduPercentage(urdu_chars, total_chars)
         IN  IF IsUrdu(urdu_percentage)
             THEN [language |-> "ur", confidence |-> UrduConfidence(urdu_percentage)]
             ELSE [language |-> "en",
                   confidence |-> EnglishConfidence(urdu_percentage)]

\* self._detect_by_unicode(text)
DetectByUnicode(chars) ==
    LET n == CountChars(chars) IN ClassifyCounts(n[1], n[2])

(* ------------------------- mixed-language analyzer --------------------- *)

\* The default of is_mixed_language's threshold, in hundredths (0.20).
DEFAULT_THRESHOLD == 20

\* Variant: the total skips whitespace only, punctuation is counted.
RECURSIVE MixedTotalCharsWithPunctuation(_)
MixedTotalCharsWithPunctuation(s) ==
    IF s = <<>> THEN 0
    ELSE IF Len(s) = 1
         THEN IF ~IsSpace(s[1]) THEN 1 ELSE 0
    ELSE LET half == Len(s) \div 2
         IN  MixedTotalCharsWithPunctuation(SubSeq(s, 1, half))
                 + MixedTotalCharsWithPunctuation(SubSeq(s, half + 1, Len(s)))

\* sum(1 for char in text if not char.isspace() and char not in '...')
RECURSIVE MixedTotalChars(_)
MixedTotalChars(s) ==
    IF s = <<>> THEN 0
    ELSE IF Len(s) = 1
         THEN IF ~IsSpace(s[1]) /\ ~IsPunctuation(s[1]) THEN 1 ELSE 0
    ELSE LET half == Len(s) \div 2
         IN  MixedTotalChars(SubSeq(s, 1, half))
                 + MixedTotalChars(SubSeq(s, half + 1, Len(s)))

\* The second loop of is_mixed_language: urdu_chars.
RECURSIVE MixedUrduChars(_)
MixedUrduChars(s) ==
    IF s = <<>> THEN 0
    ELSE IF Len(s) = 1
         THEN IF IsSpace(s[1]) \/ IsPunctuation(s[1]) THEN 0
              ELSE IF InUrduRange(s[1]) THEN 1 ELSE 0
    ELSE LET half == Len(s) \div 2
         IN  MixedUrduChars(SubSeq(s, 1, half))
                 + MixedUrduChars(SubSeq(s, half + 1, Len(s)))

\* urdu_chars / total_chars, in hundredths (fixed point), for total_chars > 0.
MixedFraction(urdu_chars, total_chars) ==
    (urdu_chars * 100 * Scale) \div total_chars

\* Variant: the band without its end points.
InMixedBandOpen(urdu_fraction, threshold) ==
    /\ threshold * Scale < urdu_fraction
    /\ urdu_fraction < (100 - threshold) * Scale

\* threshold <= urdu_percentage <= (1 - threshold), threshold in hundredths.
InMixedBand(urdu_fraction, threshold) ==
    /\ threshold * Scale <= urdu_fraction
    /\ urdu_fraction <= (100 - threshold) * Scale

\* self.is_mixed_language(text, threshold) for a str text.
IsMixedLanguage(chars, threshold) ==
    LET total_chars == MixedTotalChars(chars)
    IN  IF total_chars = 0 THEN FALSE
        ELSE InMixedBand(MixedFraction(MixedUrduChars(chars), total_chars),
                         threshold)

\* The thresholds callers pass, in hundredths: 0.10, the default, 0.50, 0.60.
Thresholds == {10, DEFAULT_THRESHOLD, 50, 60}

(* ------------------------------ validation ----------------------------- *)

\* Variant: the length check comes before the emptiness check.
ValidateInputShortFirst(text) ==
    IF text.kind = "none" THEN "Text cannot be None"
    ELSE IF text.kind # "str" THEN "Text must be a string"
    ELSE IF Len(Strip(text.chars)) < MIN_LENGTH
         THEN "Text too short for reliable detection (minimum 3 characters)"
    ELSE IF Strip(text.chars) = <<>> THEN "Text cannot be empty or only whitespace"
    ELSE None

\* Variant: the length check measures the untrimmed text.
ValidateInputUntrimmedLength(text) ==
    IF text.kind = "none" THEN "Text cannot be None"
    ELSE IF text.kind # "str" THEN "Text must be a string"
    ELSE IF Strip(text.chars) = <<>> THEN "Text cannot be empty or only whitespace"
    ELSE IF Len(text.chars) < MIN_LENGTH
         THEN "Text too short for reliable detection (minimum 3 characters)"
    ELSE None

\* self._validate_input(text): an error message, or None.
ValidateInput(text) ==
    IF text.kind = "none" THEN "Text cannot be None"
    ELSE IF text.kind # "str" THEN "Text must be a string"
    ELSE IF Strip(text.chars) = <<>> THEN "Text cannot be empty or only whitespace"
    ELSE IF Len(Strip(text.chars)) < MIN_LENGTH
         THEN "Text too short for reliable detection (minimum 3 characters)"
    ELSE None

(* --------------------------- fallback classifier ----------------------- *)

\* What langdetect's detect(text) may do: report 'ur', 'en', another language
\* code ("fr" and "ar" stand for them), or raise LangDetectException.
LibraryAnswers == {"ur", "en", "fr", "ar", "LangDetectException"}

\* Variant: an unsupported language code is rejected instead of coerced.
DetectByLibraryRejectsUnsupported(available, answer) ==
    IF available /\ answer \in {"ur", "en"}
    THEN [success |-> TRUE, language |-> answer,
          confidence |-> LIBRARY_CONFIDENCE * Scale]
    ELSE [success |-> FALSE, language |-> "", confidence |-> 0]

\* Variant: the except clause answers with the low-confidence default.
DetectByLibraryDefaultsOnError(available, answer) ==
    IF ~available THEN [success |-> FALSE, language |-> "", confidence |-> 0]
    ELSE IF answer \in {"ur", "en"}
         THEN [success |-> TRUE, language |-> answer,
               confidence |-> LIBRARY_CONFIDENCE * Scale]
    ELSE [success |-> TRUE, language |-> "en",
          confidence |-> LIBRARY_DEFAULT_CONFIDENCE * Scale]

\* Variant: the detected code is passed through unmapped.
DetectByLibraryPassThrough(available, answer) ==
    IF ~available \/ answer = "LangDetectException"
    THEN [success |-> FALSE, language |-> "", confidence |-> 0]
    ELSE [success |-> TRUE, language |-> answer,
          confidence |-> IF answer \in {"ur", "en"}
                         THEN LIBRARY_CONFIDENCE * Scale
                         ELSE LIBRARY_DEFAULT_CONFIDENCE * Scale]

\* self._detect_by_library(text), when langdetect answers `answer`.
DetectByLibrary(available, answer) ==
    IF ~available THEN [success |-> FALSE, language |-> "", confidence |-> 0]
    ELSE IF answer = "LangDetectException"
         THEN [success |-> FALSE, language |-> "", confidence |-> 0]
    ELSE IF answer = "ur"
         THEN [success |-> TRUE, language |-> "ur",
               confidence |-> LIBRARY_CONFIDENCE * Scale]
    ELSE IF answer = "en"
         THEN [success |-> TRUE, language |-> "en",
               confidence |-> LIBRARY_CONFIDENCE * Scale]
    ELSE [success |-> TRUE, language |-> "en",
          confidence |-> LIBRARY_DEFAULT_CONFIDENCE * Scale]

(* ------------------------------- results ------------------------------- *)

\* Variant: the failed result without its message.
ErrorResultWithoutMessage(validation_error) ==
    [success |-> FALSE, language |-> "", confidence |-> 0, method |-> "",
     text_sample |-> <<>>, char_count |-> 0, error |-> None]

\* The LanguageDetectionResult of a validation failure.
ErrorResult(validation_error) ==
    [success |-> FALSE, language |-> "", confidence |-> 0, method |-> "",
     text_sample |-> <<>>, char_count |-> 0, error |-> validation_error]

\* Variant: sample and count taken from the stripped text.
UnicodeResultTrimmed(text, unicode_result) ==
    [success |-> TRUE, language |-> unicode_result.language,
     confidence |-> unicode_result.confidence, method |-> "unicode",
     text_sample |-> Take(Strip(text.chars), SAMPLE_LEN),
     char_count |-> Len(Strip(text.chars)), error |-> None]

\* The LanguageDetectionResult of the primary pass.
UnicodeResult(text, unicode_result) ==
    [success |-> TRUE, language |-> unicode_result.language,
     confidence |-> unicode_result.confidence, method |-> "unicode",
     text_sample |-> Take(text.chars, SAMPLE_LEN), char_count |-> Len(text.chars),
     error |-> None]

\* The LanguageDetectionResult of the fallback pass.
LibraryResult(text, library_result) ==
    [success |-> TRUE, language |-> library_result.language,
     confidence |-> library_result.confidence, method |-> "library",
     text_sample |-> Take(text.chars, SAMPLE_LEN), char_count |-> Len(text.chars),
     error |-> None]

\* Variant: a low-confidence detection reported as a failure.
DefaultResultFailed(text, unicode_result) ==
    [success |-> FALSE, language |-> "", confidence |-> 0, method |-> "",
     text_sample |-> <<>>, char_count |-> 0, error |-> "Low confidence detection"]

\* Variant: the default stage drops the script classifier's confidence.
DefaultResultZeroConfidence(text, unicode_result) ==
    [success |-> TRUE, language |-> unicode_result.language,
     confidence |-> 0, method |-> "unicode",
     text_sample |-> Take(text.chars, SAMPLE_LEN), char_count |-> Len(text.chars),
     error |-> None]

\* The LanguageDetectionResult of the default stage.
DefaultResult(text, unicode_result) ==
    [success |-> TRUE, language |-> unicode_result.language,
     confidence |-> unicode_result.confidence, method |-> "unicode",
     text_sample |-> Take(text.chars, SAMPLE_LEN), char_count |-> Len(text.chars),
     error |-> None]

\* Variant: a stricter acceptance threshold.
IsConfidentAbove80(confidence) == confidence > 80 * Scale

\* unicode_result['confidence'] > 70
IsConfident(confidence) == confidence > CONFIDENT_ABOVE * Scale

\* Variant: the constructor ignores its argument.
UseFallbackIgnoringArgument(use_library_fallback_arg, available) == available

\* Variant: the constructor ignores whether langdetect was imported.
UseFallbackIgnoringAvailability(use_library_fallback_arg, available) ==
    use_library_fallback_arg

\* use_library_fallback and LANGDETECT_AVAILABLE
UseFallback(use_library_fallback_arg, available) ==
    use_library_fallback_arg /\ available

\* self.get_supported_languages()
GetSupportedLanguages == <<"en", "ur">>

\* quick_detect's return expression: result.language if result.success else 'en'
QuickDetect(detection) == IF detection.success THEN detection.language ELSE "en"

(* -------------------------------- state -------------------------------- *)

VARIABLES
    LANGDETECT_AVAILABLE,  \* the import of langdetect succeeded
    use_library_fallback,  \* the constructor's argument
    use_fallback,          \* self.use_fallback
    pc,                    \* position of the detect call
    text,                  \* detect's argument
    validation_error,      \* detect's local
    unicode_result,        \* detect's local
    library_result,        \* detect's local
    detected_lang,         \* what langdetect did on this call ("" if not run)
    unicode_calls,         \* runs of _detect_by_unicode during this call
    library_calls,         \* runs of _detect_by_library during this call
    result,                \* the value detect returned
    exception,             \* the exception detect raised ("" if none)
    first_result,          \* the result of the call before, when detect is
                           \* called a second time on the same text
    quick,                 \* the value quick_detect returned ("" if none)
    direct,                \* the dict a direct _detect_by_library call returned
    mixed,                 \* the last is_mixed_language call and its value
    counts,                \* character counts given to the script classifier
    analysis,              \* its decisions on them, in order
    samples,               \* arguments a caller passes to the helpers in turn
    errors,                \* what _validate_input returned for them
    scripts,               \* what _detect_by_unicode did with them
    mixes,                 \* what is_mixed_language did with them
    threads,               \* the frames of calls running concurrently on the
                           \* one detector, by thread
    input_call,            \* the frame of a TextInputHandler.process call
    ocr_call               \* the frame of an OCREngine.extract_from_bytes call

vars ==
    <<LANGDETECT_AVAILABLE, use_library_fallback, use_fallback, pc, text,
      validation_error, unicode_result, library_result, detected_lang,
      unicode_calls, library_calls, result, exception, first_result, quick,
      direct, mixed, counts, analysis, samples, errors, scripts, mixes, threads,
      input_call, ocr_call>>

\* The helpers' calls on their own, outside detect.
others == <<samples, errors, scripts, mixes>>

\* Concurrent callers of the detector, and the two collaborators that supply
\* text: the text input handler and the OCR engine.
rest == <<threads, input_call, ocr_call>>

\* What the steps of detect leave alone.
aux == <<first_result, quick, direct, mixed, counts, analysis, others, rest>>

config == <<LANGDETECT_AVAILABLE, use_library_fallback, use_fallback>>

NoDict == [language |-> "", confidence |-> 0]

NoLibraryDict == [success |-> FALSE, language |-> "", confidence |-> 0]

NoResult ==
    [success |-> FALSE, language |-> "", confidence |-> 0, method |-> "",
     text_sample |-> <<>>, char_count |-> 0, error |-> None]

NoDirect == [called |-> FALSE, answer |-> "", dict |-> NoLibraryDict]

NoMixed == [called |-> FALSE, chars |-> <<>>, threshold |-> 0, value |-> FALSE]

\* The module is imported (langdetect present or not) and a detector is built.
InitDetector ==
    /\ LANGDETECT_AVAILABLE \in BOOLEAN
    /\ use_library_fallback \in BOOLEAN
    /\ use_fallback = UseFallback(use_library_fallback, LANGDETECT_AVAILABLE)
    /\ pc = "idle"
    /\ text = [kind |-> "none", chars |-> <<>>]
    /\ validation_error = None
    /\ unicode_result = NoDict
    /\ library_result = NoLibraryDict
    /\ detected_lang = ""
    /\ unicode_calls = 0
    /\ library_calls = 0
    /\ result = NoResult
    /\ exception = ""
    /\ first_result = NoResult
    /\ quick = ""
    /\ direct = NoDirect
    /\ mixed = NoMixed

\* The threads that may call the detector at the same time.
Threads == {1, 2}

\* A thread that is not in a call.
NoFrame ==
    [pc |-> "idle", op |-> "", text |-> [kind |-> "none", chars |-> <<>>],
     threshold |-> 0, validation_error |-> None, unicode_result |-> NoDict,
     library_result |-> NoLibraryDict, detected_lang |-> "", total_chars |-> 0,
     result |-> NoResult, exception |-> "", value |-> FALSE]

\* The TextInputResult not yet built.
NoInputResult ==
    [success |-> FALSE, text |-> <<>>, original_text |-> [kind |-> "none", chars |-> <<>>],
     char_count |-> 0, word_count |-> 0, error |-> None]

\* No process call is running.
NoInputCall ==
    [pc |-> "idle", text |-> [kind |-> "none", chars |-> <<>>],
     original_text |-> [kind |-> "none", chars |-> <<>>],
     result |-> NoInputResult, caught |-> "", raised |-> ""]

\* The OCRResult not yet built.
NoOcrResult ==
    [success |-> FALSE, text |-> <<>>, image_path |-> "", language |-> "",
     confidence |-> 0, char_count |-> 0, error |-> None]

\* No extract_from_bytes call is running; preprocess is self.preprocess of
\* the engine (default True).
NoOcrCall ==
    [pc |-> "idle", preprocess |-> TRUE, image |-> "", filename |-> "",
     language |-> "", output |-> <<>>, preprocessed |-> FALSE,
     lang_code |-> "", result |-> NoOcrResult, caught |-> ""]

\* No helper has been called on its own.
InitOthers == samples = <<>> /\ errors = <<>> /\ scripts = <<>> /\ mixes = <<>>

\* No concurrent caller, no text input call, no OCR call.
InitRest ==
    /\ threads = [i \in Threads |-> NoFrame]
    /\ input_call = NoInputCall
    /\ ocr_call = NoOcrCall

Init == InitDetector /\ counts = <<>> /\ analysis = <<>> /\ InitOthers /\ InitRest

(* ------------------------------- detect -------------------------------- *)

\* detector.detect(t) is called; the debug log line evaluates t[:50] first.
DetectCall(t) ==
    /\ pc = "idle"
    /\ text' = t
    /\ validation_error' = None
    /\ unicode_result' = NoDict
    /\ library_result' = NoLibraryDict
    /\ detected_lang' = ""
    /\ unicode_calls' = 0
    /\ library_calls' = 0
    /\ result' = NoResult
    /\ IF Sliceable(t)
       THEN pc' = "validate" /\ exception' = ""
       ELSE pc' = "raised" /\ exception' = "TypeError"
    /\ UNCHANGED <<config, aux>>

\* Step 1: validate input.
Validate ==
    /\ pc = "validate"
    /\ validation_error' = ValidateInput(text)
    /\ IF validation_error' # None
       THEN result' = ErrorResult(validation_error') /\ pc' = "done"
       ELSE result' = result /\ pc' = "primary"
    /\ UNCHANGED <<aux, config, text, unicode_result, library_result, detected_lang,
                   unicode_calls, library_calls, exception>>

\* Step 2: Unicode-based detection, accepted when confident.
Primary ==
    /\ pc = "primary"
    /\ unicode_result' = DetectByUnicode(text.chars)
    /\ unicode_calls' = unicode_calls + 1
    /\ IF IsConfident(unicode_result'.confidence)
       THEN result' = UnicodeResult(text, unicode_result') /\ pc' = "done"
       ELSE result' = result /\ pc' = "fallback"
    /\ UNCHANGED <<aux, config, text, validation_error, library_result, detected_lang,
                   library_calls, exception>>

\* Variant: a library failure switches self.use_fallback off for good.
FallbackDisablesOnFailure(answer) ==
    /\ pc = "fallback"
    /\ use_fallback
    /\ detected_lang' = answer
    /\ library_result' = DetectByLibrary(LANGDETECT_AVAILABLE, answer)
    /\ library_calls' = library_calls + 1
    /\ IF library_result'.success
       THEN result' = LibraryResult(text, library_result') /\ pc' = "done"
       ELSE result' = result /\ pc' = "default"
    /\ use_fallback' = library_result'.success
    /\ UNCHANGED <<aux, LANGDETECT_AVAILABLE, use_library_fallback, text,
                   validation_error, unicode_result, unicode_calls, exception>>

\* Step 3, self.use_fallback true: library-based detection.
Fallback(answer) ==
    /\ pc = "fallback"
    /\ use_fallback
    /\ detected_lang' = answer
    /\ library_result' = DetectByLibrary(LANGDETECT_AVAILABLE, answer)
    /\ library_calls' = library_calls + 1
    /\ IF library_result'.success
       THEN result' = LibraryResult(text, library_result') /\ pc' = "done"
       ELSE result' = result /\ pc' = "default"
    /\ UNCHANGED <<aux, config, text, validation_error, unicode_result, unicode_calls,
                   exception>>

\* Step 3, self.use_fallback false: the library is not tried.
SkipFallback ==
    /\ pc = "fallback"
    /\ ~use_fallback
    /\ pc' = "default"
    /\ UNCHANGED <<aux, config, text, validation_error, unicode_result, library_result,
                   detected_lang, unicode_calls, library_calls, result, exception>>

\* Step 4: default to the Unicode result.
Default ==
    /\ pc = "default"
    /\ result' = DefaultResult(text, unicode_result)
    /\ pc' = "done"
    /\ UNCHANGED <<aux, config, text, validation_error, unicode_result, library_result,
                   detected_lang, unicode_calls, library_calls, exception>>

\* detector._detect_by_library(text) called on its own; `answer` is what
\* langdetect does with the text when it is consulted.
LibraryCall(answer) ==
    /\ pc = "idle"
    /\ pc' = "library_done"
    /\ direct' = [called |-> TRUE,
                  answer |-> IF LANGDETECT_AVAILABLE THEN answer ELSE "",
                  dict |-> DetectByLibrary(LANGDETECT_AVAILABLE, answer)]
    /\ UNCHANGED <<config, text, validation_error, unicode_result, library_result,
                   detected_lang, unicode_calls, library_calls, result, exception,
                   first_result, quick, mixed, counts, analysis, others, rest>>

\* detector.is_mixed_language(Str(chars), threshold / 100)
IsMixedCall(chars, threshold) ==
    /\ pc = "idle"
    /\ pc' = "mixed_done"
    /\ mixed' = [called |-> TRUE, chars |-> chars, threshold |-> threshold,
                 value |-> IsMixedLanguage(chars, threshold)]
    /\ UNCHANGED <<config, text, validation_error, unicode_result, library_result,
                   detected_lang, unicode_calls, library_calls, result, exception,
                   first_result, quick, direct, counts, analysis, others, rest>>

\* quick_detect(text): detect_language builds a detector with the default
\* use_library_fallback = True and calls detect; this is the step after that
\* detect call has returned.
QuickDetectReturn ==
    /\ pc = "done"
    /\ use_library_fallback
    /\ quick' = QuickDetect(result)
    /\ pc' = "quick_done"
    /\ UNCHANGED <<config, text, validation_error, unicode_result, library_result,
                   detected_lang, unicode_calls, library_calls, result, exception,
                   first_result, direct, mixed, counts, analysis, others, rest>>

\* quick_detect(text) when that detect call raised: nothing catches it.
QuickDetectRaise ==
    /\ pc = "raised"
    /\ use_library_fallback
    /\ pc' = "quick_raised"
    /\ UNCHANGED <<config, text, validation_error, unicode_result, library_result,
                   detected_lang, unicode_calls, library_calls, result, exception,
                   first_result, quick, direct, mixed, counts, analysis, others, rest>>

\* The caller takes the value (or the exception) and the call's frame is gone.
Return ==
    /\ pc \in {"done", "raised", "quick_done", "quick_raised", "library_done",
              "mixed_done"}
    /\ pc' = "idle"
    /\ text' = [kind |-> "none", chars |-> <<>>]
    /\ validation_error' = None
    /\ unicode_result' = NoDict
    /\ library_result' = NoLibraryDict
    /\ detected_lang' = ""
    /\ unicode_calls' = 0
    /\ library_calls' = 0
    /\ result' = NoResult
    /\ exception' = ""
    /\ first_result' = NoResult
    /\ quick' = ""
    /\ direct' = NoDirect
    /\ mixed' = NoMixed
    /\ UNCHANGED <<config, counts, analysis, others, rest>>

\* The three entry points are taken only between calls; the guard is
\* repeated here so that inputs are enumerated only when one can be taken.
Next ==
    \/ pc = "idle" /\ \E t \in Inputs : DetectCall(t)
    \/ Validate
    \/ Primary
    \/ \E answer \in LibraryAnswers : Fallback(answer)
    \/ SkipFallback
    \/ Default
    \/ pc = "idle" /\ \E answer \in LibraryAnswers : LibraryCall(answer)
    \/ pc = "idle" /\ \E chars \in Texts, threshold \in Thresholds :
                          IsMixedCall(chars, threshold)
    \/ QuickDetectReturn
    \/ QuickDetectRaise
    \/ Return

Spec == Init /\ [][Next]_vars

(* ------------------- detect twice on the same text --------------------- *)

\* The caller keeps the result and calls detector.detect again with the text
\* it has just passed.
DetectAgain ==
    /\ pc = "done"
    /\ first_result = NoResult
    /\ first_result' = result
    /\ pc' = "validate"
    /\ validation_error' = None
    /\ unicode_result' = NoDict
    /\ library_result' = NoLibraryDict
    /\ detected_lang' = ""
    /\ unicode_calls' = 0
    /\ library_calls' = 0
    /\ result' = NoResult
    /\ UNCHANGED <<config, text, exception, quick, direct, mixed, counts, analysis,
                   others, rest>>

NextRepeat == Next \/ DetectAgain

SpecRepeat == Init /\ [][NextRepeat]_vars

(* ------------------ the script classifier on its counts ---------------- *)

\* The counts the character loop can produce: 0 <= urdu_chars <= total_chars.
Counts == {[total |-> t, urdu |-> u] : t \in 0..MaxRun, u \in 0..MaxRun}

\* Two texts, given by their counts, are to be classified.
InitClassify ==
    /\ InitDetector
    /\ ~LANGDETECT_AVAILABLE
    /\ ~use_library_fallback
    /\ counts \in {<<a, b>> : a \in {c \in Counts : c.urdu <= c.total},
                              b \in {c \in Counts : c.urdu <= c.total}}
    /\ analysis = <<>>
    /\ InitOthers
    /\ InitRest

\* The decision part of _detect_by_unicode runs on the next pair of counts.
Classify ==
    /\ Len(analysis) < Len(counts)
    /\ analysis' =
           Append(analysis,
                  ClassifyCounts(counts[Len(analysis) + 1].total,
                                 counts[Len(analysis) + 1].urdu))
    /\ UNCHANGED <<config, pc, text, validation_error, unicode_result,
                   library_result, detected_lang, unicode_calls, library_calls,
                   result, exception, first_result, quick, direct, mixed, counts, others, rest>>

NextClassify == Classify

SpecClassify == InitClassify /\ [][NextClassify]_vars

(* ------------------ the helpers called on their own -------------------- *)

\* Iterating the argument or calling isspace on its items fails: None and
\* integers are not iterable, the items of a bytes object are integers.
IterationError(x) ==
    IF x.kind = "str" THEN ""
    ELSE IF x.kind = "bytes" /\ x.chars # <<>> THEN "AttributeError"
    ELSE IF x.kind = "bytes" THEN ""
    ELSE "TypeError"

\* A caller is about to pass its arguments to the helpers.
InitSamples ==
    /\ InitDetector
    /\ ~LANGDETECT_AVAILABLE
    /\ ~use_library_fallback
    /\ counts = <<>>
    /\ analysis = <<>>
    /\ samples \in Samples
    /\ errors = <<>>
    /\ scripts = <<>>
    /\ mixes = <<>>
    /\ InitRest

\* detector._validate_input(x) for the next argument x.
ValidateSample ==
    /\ Len(errors) < Len(samples)
    /\ Len(errors) = Len(mixes)
    /\ errors' = Append(errors, ValidateInput(samples[Len(errors) + 1]))
    /\ UNCHANGED <<config, pc, text, validation_error, unicode_result,
                   library_result, detected_lang, unicode_calls, library_calls,
                   result, exception, first_result, quick, direct, mixed, counts,
                   analysis, samples, scripts, mixes, rest>>

\* detector._detect_by_unicode(x) for the same argument: the two counters
\* after the loop and the dict returned, or the exception raised.
ClassifySample ==
    /\ Len(scripts) < Len(errors)
    /\ LET x == samples[Len(scripts) + 1]
           n == CountChars(x.chars)
       IN  scripts' =
               Append(scripts,
                      IF IterationError(x) # ""
                      THEN [raised |-> IterationError(x), total_chars |-> 0,
                            urdu_chars |-> 0, dict |-> NoDict]
                      ELSE [raised |-> "", total_chars |-> n[1],
                            urdu_chars |-> n[2], dict |-> DetectByUnicode(x.chars)])
    /\ UNCHANGED <<config, pc, text, validation_error, unicode_result,
                   library_result, detected_lang, unicode_calls, library_calls,
                   result, exception, first_result, quick, direct, mixed, counts,
                   analysis, samples, errors, mixes, rest>>

\* detector.is_mixed_language(x) for the same argument, at the default
\* threshold: its two counts and the boolean returned, or the exception.
MixedSample ==
    /\ Len(mixes) < Len(scripts)
    /\ LET x == samples[Len(mixes) + 1]
       IN  mixes' =
               Append(mixes,
                      IF IterationError(x) # ""
                      THEN [raised |-> IterationError(x), total_chars |-> 0,
                            urdu_chars |-> 0, value |-> FALSE]
                      ELSE [raised |-> "",
                            total_chars |-> MixedTotalChars(x.chars),
                            urdu_chars |->
                                IF MixedTotalChars(x.chars) = 0 THEN 0
                                ELSE MixedUrduChars(x.chars),
                            value |-> IsMixedLanguage(x.chars, DEFAULT_THRESHOLD)])
    /\ UNCHANGED <<config, pc, text, validation_error, unicode_result,
                   library_result, detected_lang, unicode_calls, library_calls,
                   result, exception, first_result, quick, direct, mixed, counts,
                   analysis, samples, errors, scripts, rest>>

NextSamples == ValidateSample \/ ClassifySample \/ MixedSample

SpecSamples == InitSamples /\ [][NextSamples]_vars
(* --------------- concurrent calls on a shared detector ----------------- *)

\* The calls made one at a time, and the helpers called on their own.
sequential ==
    <<pc, text, validation_error, unicode_result, library_result, detected_lang,
      unicode_calls, library_calls, result, exception, first_result, quick,
      direct, mixed, counts, analysis, others>>

\* Arguments of the concurrent detect calls: None, 12345, "HH", "HHH",
\* three Urdu letters, one Urdu letter and two Latin ones (33%), "!!!".
ConcurrentInputs ==
    {[kind |-> "none", chars |-> <<>>], [kind |-> "int", chars |-> <<>>],
     Str(<<72, 72>>), Str(<<72, 72, 72>>), Str(<<1587, 1587, 1587>>),
     Str(<<1587, 72, 72>>), Str(<<33, 33, 33>>)}

\* Arguments of the concurrent is_mixed_language calls: a balanced text, a
\* Latin one, one at exactly 20%, and punctuation only.
ConcurrentMixedTexts ==
    {<<72, 1587>>, <<72, 72, 72>>, <<1587, 72, 72, 72, 72>>, <<33, 33>>}

\* Thread i calls detector.detect(t); the debug log line evaluates t[:50].
ThreadDetectCall(i, t) ==
    /\ threads[i].pc = "idle"
    /\ threads' =
           [threads EXCEPT ![i] =
               [NoFrame EXCEPT
                   !.op = "detect",
                   !.text = t,
                   !.pc = IF Sliceable(t) THEN "validate" ELSE "raised",
                   !.exception = IF Sliceable(t) THEN "" ELSE "TypeError"]]
    /\ UNCHANGED <<config, sequential, input_call, ocr_call>>

\* Step 1 in thread i.
ThreadValidate(i) ==
    /\ threads[i].pc = "validate"
    /\ LET error == ValidateInput(threads[i].text)
       IN  threads' =
               [threads EXCEPT ![i] =
                   IF error # None
                   THEN [@ EXCEPT !.validation_error = error,
                                  !.result = ErrorResult(error),
                                  !.pc = "done"]
                   ELSE [@ EXCEPT !.validation_error = error, !.pc = "primary"]]
    /\ UNCHANGED <<config, sequential, input_call, ocr_call>>

\* Variant: detect keeps its argument in an attribute of the detector, and
\* the primary pass classifies the attribute: the text of the other call
\* when one is running.
ThreadPrimarySharedText(i) ==
    /\ threads[i].pc = "primary"
    /\ LET other == CHOOSE j \in Threads : j # i
           shared == IF threads[other].pc # "idle"
                     THEN threads[other].text ELSE threads[i].text
           unicode == DetectByUnicode(shared.chars)
       IN  threads' =
               [threads EXCEPT ![i] =
                   IF IsConfident(unicode.confidence)
                   THEN [@ EXCEPT !.unicode_result = unicode,
                                  !.result = UnicodeResult(threads[i].text, unicode),
                                  !.pc = "done"]
                   ELSE [@ EXCEPT !.unicode_result = unicode, !.pc = "fallback"]]
    /\ UNCHANGED <<config, sequential, input_call, ocr_call>>

\* Step 2 in thread i.
ThreadPrimary(i) ==
    /\ threads[i].pc = "primary"
    /\ LET unicode == DetectByUnicode(threads[i].text.chars)
       IN  threads' =
               [threads EXCEPT ![i] =
                   IF IsConfident(unicode.confidence)
                   THEN [@ EXCEPT !.unicode_result = unicode,
                                  !.result = UnicodeResult(threads[i].text, unicode),
                                  !.pc = "done"]
                   ELSE [@ EXCEPT !.unicode_result = unicode, !.pc = "fallback"]]
    /\ UNCHANGED <<config, sequential, input_call, ocr_call>>

\* Step 3 in thread i, self.use_fallback true.
ThreadFallback(i, answer) ==
    /\ threads[i].pc = "fallback"
    /\ use_fallback
    /\ LET library == DetectByLibrary(LANGDETECT_AVAILABLE, answer)
       IN  threads' =
               [threads EXCEPT ![i] =
                   IF library.success
                   THEN [@ EXCEPT !.detected_lang = answer,
                                  !.library_result = library,
                                  !.result = LibraryResult(threads[i].text, library),
                                  !.pc = "done"]
                   ELSE [@ EXCEPT !.detected_lang = answer,
                                  !.library_result = library,
                                  !.pc = "default"]]
    /\ UNCHANGED <<config, sequential, input_call, ocr_call>>

\* Step 3 in thread i, self.use_fallback false.
ThreadSkipFallback(i) ==
    /\ threads[i].pc = "fallback"
    /\ ~use_fallback
    /\ threads' = [threads EXCEPT ![i].pc = "default"]
    /\ UNCHANGED <<config, sequential, input_call, ocr_call>>

\* Step 4 in thread i.
ThreadDefault(i) ==
    /\ threads[i].pc = "default"
    /\ threads' =
           [threads EXCEPT ![i] =
               [@ EXCEPT !.result = DefaultResult(threads[i].text,
                                                 threads[i].unicode_result),
                         !.pc = "done"]]
    /\ UNCHANGED <<config, sequential, input_call, ocr_call>>

\* Thread i calls detector.is_mixed_language(Str(chars), threshold / 100).
ThreadMixedCall(i, chars, threshold) ==
    /\ threads[i].pc = "idle"
    /\ threads' =
           [threads EXCEPT ![i] =
               [NoFrame EXCEPT !.op = "mixed", !.text = Str(chars),
                               !.threshold = threshold, !.pc = "mixed_total"]]
    /\ UNCHANGED <<config, sequential, input_call, ocr_call>>

\* The sum over the generator, and the early return when it is 0.
ThreadMixedTotal(i) ==
    /\ threads[i].pc = "mixed_total"
    /\ LET total_chars == MixedTotalChars(threads[i].text.chars)
       IN  threads' =
               [threads EXCEPT ![i] =
                   IF total_chars = 0
                   THEN [@ EXCEPT !.total_chars = 0, !.value = FALSE, !.pc = "done"]
                   ELSE [@ EXCEPT !.total_chars = total_chars,
                                  !.pc = "mixed_urdu"]]
    /\ UNCHANGED <<config, sequential, input_call, ocr_call>>

\* The loop counting Urdu characters, and the band test.
ThreadMixedDecide(i) ==
    /\ threads[i].pc = "mixed_urdu"
    /\ threads' =
           [threads EXCEPT ![i] =
               [@ EXCEPT
                   !.value =
                       InMixedBand(
                           MixedFraction(MixedUrduChars(threads[i].text.chars),
                                         threads[i].total_chars),
                           threads[i].threshold),
                   !.pc = "done"]]
    /\ UNCHANGED <<config, sequential, input_call, ocr_call>>

\* The caller in thread i takes the value or the exception.
ThreadReturn(i) ==
    /\ threads[i].pc \in {"done", "raised"}
    /\ threads' = [threads EXCEPT ![i] = NoFrame]
    /\ UNCHANGED <<config, sequential, input_call, ocr_call>>

NextConcurrent ==
    \E i \in Threads :
        \/ \E t \in ConcurrentInputs : ThreadDetectCall(i, t)
        \/ ThreadValidate(i)
        \/ ThreadPrimary(i)
        \/ \E answer \in LibraryAnswers : ThreadFallback(i, answer)
        \/ ThreadSkipFallback(i)
        \/ ThreadDefault(i)
        \/ \E chars \in ConcurrentMixedTexts, threshold \in Thresholds :
               ThreadMixedCall(i, chars, threshold)
        \/ ThreadMixedTotal(i)
        \/ ThreadMixedDecide(i)
        \/ ThreadReturn(i)

SpecConcurrent == Init /\ [][NextConcurrent]_vars
(* ------------- text input handler (src/modules/text_input.py) --------- *)

\* TextInputHandler.MIN_TEXT_LENGTH
MIN_TEXT_LENGTH == 1

\* TextInputHandler.MAX_TEXT_LENGTH
MAX_TEXT_LENGTH == 10000

\* space, newline, '!', '@', 'H', SEEN (U+0633)
HandlerAlphabet == {32, 10, 33, 64, 72, 1587}

\* Short texts, and texts at and just over MAX_TEXT_LENGTH: 10000 letters,
\* 10001 letters, and 10000 letters after a space.
HandlerTexts ==
    UNION {[1..k -> HandlerAlphabet] : k \in 0..MaxInput}
        \cup {Rep(72, MAX_TEXT_LENGTH), Rep(72, MAX_TEXT_LENGTH + 1),
              <<32>> \o Rep(72, MAX_TEXT_LENGTH)}

HandlerInputs == {Str(t) : t \in HandlerTexts} \cup NonStrings

\* type(text).__name__
TypeName(x) ==
    CASE x.kind = "none" -> "NoneType"
      [] x.kind = "int" -> "int"
      [] x.kind = "bytes" -> "bytes"
      [] OTHER -> "str"

\* Variant: the raw length is not limited.
ValidateRawInputNoLimit(x) ==
    IF x.kind = "none" THEN "Text cannot be None"
    ELSE IF x.kind # "str" THEN "Text must be a string, got " \o TypeName(x)
    ELSE IF Len(Strip(x.chars)) = 0 THEN "Text cannot be empty or whitespace only"
    ELSE None

\* TextInputHandler._validate_input(text): an error message, or None.
ValidateRawInput(x) ==
    IF x.kind = "none" THEN "Text cannot be None"
    ELSE IF x.kind # "str" THEN "Text must be a string, got " \o TypeName(x)
    ELSE IF Len(Strip(x.chars)) = 0 THEN "Text cannot be empty or whitespace only"
    ELSE IF Len(x.chars) > MAX_TEXT_LENGTH
         THEN "Text too long (" \o ToString(Len(x.chars)) \o " chars). Maximum is "
                  \o ToString(MAX_TEXT_LENGTH) \o " characters"
    ELSE None

\* TextInputHandler._validate_processed_text(text)
ValidateProcessedText(chars) ==
    IF Len(chars) < MIN_TEXT_LENGTH
    THEN "Text too short after cleaning (minimum 1 character)"
    ELSE None

\* What ftfy.fix_text may do with a text: return it unchanged, return it with
\* a character replaced (its first one by an apostrophe) or with a character
\* removed (its first one), or raise.
FtfyAnswers == {"unchanged", "replaced", "removed", "raise"}

\* TextInputHandler._fix_encoding(text): the fixed text, or the original one
\* when ftfy raises.
FixEncoding(chars, answer) ==
    IF chars = <<>> \/ answer \in {"unchanged", "raise"} THEN chars
    ELSE IF answer = "replaced" THEN <<39>> \o Tail(chars)
    ELSE Tail(chars)

\* text.replace('\n', ' ').replace('\r', ' ').replace('\t', ' ')
ReplaceBreaks(chars) ==
    [i \in 1..Len(chars) |-> IF chars[i] \in {10, 13, 9} THEN 32 ELSE chars[i]]

\* re.sub(r' +', ' ', text) on chars[lo..hi]: a space after a space is
\* dropped (folded in halves to keep the evaluation shallow).
RECURSIVE CollapseSpaces(_, _, _)
CollapseSpaces(chars, lo, hi) ==
    IF lo > hi THEN <<>>
    ELSE IF lo = hi
         THEN IF chars[lo] = 32 /\ lo > 1 /\ chars[lo - 1] = 32
              THEN <<>> ELSE <<chars[lo]>>
    ELSE LET mid == (lo + hi) \div 2
         IN  CollapseSpaces(chars, lo, mid) \o CollapseSpaces(chars, mid + 1, hi)

\* TextInputHandler._normalize_whitespace(text)
NormalizeWhitespace(chars) ==
    LET replaced == ReplaceBreaks(chars)
    IN  Strip(CollapseSpaces(replaced, 1, Len(replaced)))

\* [A-Za-z0-9_], the part of \w within ASCII
IsAsciiWord(c) == c \in (48..57) \cup (65..90) \cup {95} \cup (97..122)

\* The character is outside the negated class of _clean_text's pattern:
\* \w, \s, one of . , ! ? ' " - : ; or a code point of the four Urdu ranges.
\* (Of \w only the ASCII part and the Urdu ranges are modelled.)
CleanKeeps(c) ==
    \/ IsAsciiWord(c)
    \/ IsSpace(c)
    \/ c \in {46, 44, 33, 63, 39, 34, 45, 58, 59}
    \/ InUrduRange(c)

\* TextInputHandler._clean_text(text)
CleanText(chars) ==
    LET kept == SelectSeq(chars, CleanKeeps)
    IN  Strip(CollapseSpaces(kept, 1, Len(kept)))

\* TextInputHandler._count_words(text): the tokens of text.split().
CountWords(chars) ==
    Cardinality({i \in 1..Len(chars) :
                    ~IsSpace(chars[i]) /\ (i = 1 \/ IsSpace(chars[i - 1]))})

\* TextInputHandler._create_error_result(original_text, error)
CreateErrorResult(original_text, error) ==
    [success |-> FALSE, text |-> <<>>, original_text |-> original_text,
     char_count |-> 0, word_count |-> 0, error |-> error]

\* The TextInputResult of step 6.
SuccessResult(original_text, chars) ==
    [success |-> TRUE, text |-> chars, original_text |-> original_text,
     char_count |-> Len(chars), word_count |-> CountWords(chars), error |-> None]

\* What the steps of process leave alone.
outside_input == <<config, sequential, threads, ocr_call>>

\* handler.process(t) is called.
ProcessCall(t) ==
    /\ input_call.pc = "idle"
    /\ input_call' = [NoInputCall EXCEPT !.pc = "validate", !.text = t,
                                         !.original_text = t]
    /\ UNCHANGED outside_input

\* Step 1: initial validation.
ProcessValidate ==
    /\ input_call.pc = "validate"
    /\ LET validation_error_ == ValidateRawInput(input_call.text)
       IN  input_call' =
               IF validation_error_ # None
               THEN [input_call EXCEPT
                        !.result = CreateErrorResult(input_call.original_text,
                                                     validation_error_),
                        !.pc = "done"]
               ELSE [input_call EXCEPT !.pc = "fix"]
    /\ UNCHANGED outside_input

\* Step 2: fix encoding issues; `answer` is what ftfy does with the text.
ProcessFixEncoding(answer) ==
    /\ input_call.pc = "fix"
    /\ input_call' =
           [input_call EXCEPT
               !.text = Str(FixEncoding(input_call.text.chars, answer)),
               !.pc = "normalize"]
    /\ UNCHANGED outside_input

\* Step 3: normalize whitespace.
ProcessNormalize ==
    /\ input_call.pc = "normalize"
    /\ input_call' =
           [input_call EXCEPT
               !.text = Str(NormalizeWhitespace(input_call.text.chars)),
               !.pc = "clean"]
    /\ UNCHANGED outside_input

\* Step 4: clean special characters.
ProcessClean ==
    /\ input_call.pc = "clean"
    /\ input_call' =
           [input_call EXCEPT
               !.text = Str(CleanText(input_call.text.chars)),
               !.pc = "final"]
    /\ UNCHANGED outside_input

\* Steps 5 and 6: final validation, then the success result.
ProcessFinish ==
    /\ input_call.pc = "final"
    /\ LET final_validation_error == ValidateProcessedText(input_call.text.chars)
       IN  input_call' =
               [input_call EXCEPT
                   !.result =
                       IF final_validation_error # None
                       THEN CreateErrorResult(input_call.original_text,
                                              final_validation_error)
                       ELSE SuccessResult(input_call.original_text,
                                          input_call.text.chars),
                   !.pc = "done"]
    /\ UNCHANGED outside_input

\* An exception is raised inside the try block (a MemoryError, say, while a
\* step builds its string): the except clause builds the error result.
ProcessUnexpected ==
    /\ input_call.pc \in {"fix", "normalize", "clean", "final"}
    /\ input_call' =
           [input_call EXCEPT
               !.caught = "MemoryError",
               !.result = CreateErrorResult(input_call.original_text,
                                            "Processing error: "),
               !.pc = "done"]
    /\ UNCHANGED outside_input

\* The caller takes the TextInputResult.
ProcessReturn ==
    /\ input_call.pc = "done"
    /\ input_call' = NoInputCall
    /\ UNCHANGED outside_input

\* A handler has been built; no call is running.
InitTextInput == Init /\ ~LANGDETECT_AVAILABLE /\ ~use_library_fallback

NextTextInput ==
    \/ input_call.pc = "idle" /\ \E t \in HandlerInputs : ProcessCall(t)
    \/ ProcessValidate
    \/ \E answer \in FtfyAnswers : ProcessFixEncoding(answer)
    \/ ProcessNormalize
    \/ ProcessClean
    \/ ProcessFinish
    \/ ProcessUnexpected
    \/ ProcessReturn

SpecTextInput == InitTextInput /\ [][NextTextInput]_vars

(* ----------------------------- OCR engine ------------------------------ *)
(* OCREngine.extract_from_bytes (src/modules/ocr_engine.py).  The image    *)
(* bytes are modelled by what they are to the libraries: whether           *)
(* Image.open identifies them, and the text Tesseract would print for      *)
(* them.                                                                   *)

\* LANG_MAP.get(language, 'eng+urd').
LangCode(language) ==
    CASE language = "en" -> "eng"
      [] language = "ur" -> "urd"
      [] language = "mixed" -> "eng+urd"
      [] OTHER -> "eng+urd"

\* The language arguments: the three documented ones and an unknown one.
OcrLanguages == {"en", "ur", "mixed", "fr"}

\* The image bytes: an image Pillow identifies, or bytes it does not.
OcrImages == {"loads", "unidentified"}

\* The filenames of the upload.
OcrFilenames == {"scan.png"}

\* The text Tesseract would print for the image: nothing, whitespace only,
\* text with a trailing line break, text with surrounding whitespace.
OcrOutputs ==
    {<<>>, <<10>>, <<72, 105, 10>>, <<32, 1587, 10, 12>>, <<72, 32, 1587>>}

\* _create_error_result(image_path, language, error).
CreateOcrErrorResult(image_path, language, error) ==
    [success |-> FALSE, text |-> <<>>, image_path |-> image_path,
     language |-> language, confidence |-> 0, char_count |-> 0,
     error |-> error]

\* str(e) of the exception the try block caught.
OcrExceptionMessage(e) ==
    CASE e = "NameError" -> "name 'tesseract_lang' is not defined"
      [] e = "UnidentifiedImageError" -> "cannot identify image file"
      [] OTHER -> ""

\* What the steps of extract_from_bytes leave alone.
outside_ocr == <<config, sequential, threads, input_call>>

\* engine.extract_from_bytes(image_bytes, filename, language) is called.
ExtractFromBytesCall(image, filename, language, output) ==
    /\ ocr_call.pc = "idle"
    /\ ocr_call' = [NoOcrCall EXCEPT !.pc = "open",
                                     !.preprocess = ocr_call.preprocess,
                                     !.image = image, !.filename = filename,
                                     !.language = language, !.output = output]
    /\ UNCHANGED outside_ocr

\* Image.open(io.BytesIO(image_bytes)): raises for bytes that are no image.
OcrOpen ==
    /\ ocr_call.pc = "open"
    /\ ocr_call' =
           IF ocr_call.image = "loads"
           THEN [ocr_call EXCEPT !.pc = IF ocr_call.preprocess
                                        THEN "preprocess" ELSE "lang_code"]
           ELSE [ocr_call EXCEPT !.pc = "except",
                                 !.caught = "UnidentifiedImageError"]
    /\ UNCHANGED outside_ocr

\* _preprocess_image: the processed image, or on any exception the original.
OcrPreprocess(processed) ==
    /\ ocr_call.pc = "preprocess"
    /\ ocr_call' = [ocr_call EXCEPT !.pc = "lang_code",
                                    !.preprocessed = processed]
    /\ UNCHANGED outside_ocr

\* lang_code = self.LANG_MAP.get(language, 'eng+urd').
OcrLangCode ==
    /\ ocr_call.pc = "lang_code"
    /\ ocr_call' = [ocr_call EXCEPT !.pc = "image_to_string",
                                    !.lang_code = LangCode(ocr_call.language)]
    /\ UNCHANGED outside_ocr

\* pytesseract.image_to_string(image, lang=tesseract_lang, ...): the
\* argument tesseract_lang is a name bound nowhere, so evaluating it raises
\* NameError before Tesseract is called.
OcrImageToString ==
    /\ ocr_call.pc = "image_to_string"
    /\ ocr_call' = [ocr_call EXCEPT !.pc = "except", !.caught = "NameError"]
    /\ UNCHANGED outside_ocr

\* except Exception as e: the error result with "OCR error: " + str(e).
OcrExcept ==
    /\ ocr_call.pc = "except"
    /\ ocr_call' =
           [ocr_call EXCEPT
               !.pc = "done",
               !.result = CreateOcrErrorResult(
                              ocr_call.filename, ocr_call.language,
                              "OCR error: " \o OcrExceptionMessage(ocr_call.caught))]
    /\ UNCHANGED outside_ocr

\* The OCRResult goes back to the caller.
OcrReturn ==
    /\ ocr_call.pc = "done"
    /\ ocr_call' = [NoOcrCall EXCEPT !.preprocess = ocr_call.preprocess]
    /\ UNCHANGED outside_ocr

\* OCREngine(preprocess) for either value of preprocess.
InitOcr ==
    /\ InitDetector /\ ~LANGDETECT_AVAILABLE /\ ~use_library_fallback
    /\ counts = <<>> /\ analysis = <<>> /\ InitOthers
    /\ threads = [i \in Threads |-> NoFrame]
    /\ input_call = NoInputCall
    /\ \E preprocess \in BOOLEAN :
           ocr_call = [NoOcrCall EXCEPT !.preprocess = preprocess]

NextOcr ==
    \/ ocr_call.pc = "idle" /\
           \E image \in OcrImages, filename \in OcrFilenames,
              language \in OcrLanguages, output \in OcrOutputs :
               ExtractFromBytesCall(image, filename, language, output)
    \/ OcrOpen
    \/ \E processed \in BOOLEAN : OcrPreprocess(processed)
    \/ OcrLangCode
    \/ OcrImageToString
    \/ OcrExcept
    \/ OcrReturn

SpecOcr == InitOcr /\ [][NextOcr]_vars

(* ------------------- vocabulary of the properties ---------------------- *)

\* The call has ended: a result was returned (done) or an exception left detect.
Ended == pc \in {"done", "raised"}

\* detect returned a LanguageDetectionResult.
Returned == pc = "done"

\* Positions of the analyzable characters: neither whitespace nor punctuation.
Analyzable(chars) ==
    {i \in 1..Len(chars) : ~IsSpace(chars[i]) /\ ~IsPunctuation(chars[i])}

\* Positions of the target-script characters among them.
Target(chars) == {i \in Analyzable(chars) : InUrduRange(chars[i])}

Total(chars) == Cardinality(Analyzable(chars))

\* The target-script ratio is defined (total > 0) and exceeds p percent.
RatioAbove(chars, p) ==
    Total(chars) > 0 /\ Cardinality(Target(chars)) * 100 > p * Total(chars)

\* The target-script ratio is defined (total > 0) and is at most p percent.
RatioAtMost(chars, p) ==
    Total(chars) > 0 /\ Cardinality(Target(chars)) * 100 <= p * Total(chars)

\* The input passes validation: a string of at least 3 characters once trimmed.
ValidText(t) == t.kind = "str" /\ Len(Strip(t.chars)) >= 3

\* Absent, not a string, empty after trimming, or shorter than 3 after trimming.
InvalidText(t) ==
    \/ t.kind = "none"
    \/ t.kind # "str"
    \/ Strip(t.chars) = <<>>
    \/ Len(Strip(t.chars)) < 3

(* ------------------------------- C1 ------------------------------------ *)

\* C1: for every invalid input, None and non-strings included, detect returns
\* a result with success = false and the message in error; it raises nothing.
C1_InvalidInputReportedInBand ==
    (Ended /\ InvalidText(text)) =>
        /\ Returned
        /\ exception = ""
        /\ result.success = FALSE
        /\ result.error # None

(* ------------------------------- C2 ------------------------------------ *)

\* C2: detect returns success = false if and only if the text is absent, not a
\* string, empty after trimming or shorter than 3 after trimming; a text of
\* trimmed length exactly 3 gives success = true.
C2_FailsIffInvalid ==
    Ended =>
        /\ (Returned /\ result.success = FALSE) <=> InvalidText(text)
        /\ (text.kind = "str" /\ Len(Strip(text.chars)) = 3) =>
               (Returned /\ result.success = TRUE)

(* ------------------------------- C3 ------------------------------------ *)

\* C3: every returned result with success = false has language "" and
\* confidence 0, and error is present exactly when success is false.
C3_FailedResultShape ==
    Returned =>
        /\ (result.success = FALSE) =>
               (result.language = "" /\ result.confidence = 0)
        /\ (result.error # None) <=> (result.success = FALSE)

\* A too-short text was rejected in-band.
C3_Witness ==
    /\ Returned
    /\ result.success = FALSE
    /\ text.kind = "str"
    /\ Len(Strip(text.chars)) = 2
    /\ result.error # None

(* ------------------------------- C4 ------------------------------------ *)

\* C4: once validation passes, detect returns success = true, whatever the
\* script confidence and whatever the fallback does.
C4_ValidNeverFails ==
    (Ended /\ ValidText(text)) => (Returned /\ result.success = TRUE)

\* No analyzable character (confidence 50), the library was tried and raised.
C4_Witness ==
    /\ Returned
    /\ ValidText(text)
    /\ Total(text.chars) = 0
    /\ detected_lang = "LangDetectException"
    /\ result.success = TRUE

(* ------------------------------- C5 ------------------------------------ *)

\* C5: for every valid text with target-script ratio > 30% the returned
\* language is "ur", whatever the configuration and whatever the fallback
\* answers.
C5_UrduAboveThreshold ==
    (Returned /\ ValidText(text) /\ RatioAbove(text.chars, 30)) =>
        result.language = "ur"

\* C5, what the code guarantees instead: the language is "ur" unless the
\* ratio is at most 50% (script confidence <= 70) and the fallback, enabled
\* and available, reported success; then the result is the fallback's.
C5_UrduUnlessFallbackDecides ==
    (Returned /\ ValidText(text) /\ RatioAbove(text.chars, 30)) =>
        \/ result.language = "ur" /\ result.success = TRUE
        \/ /\ RatioAtMost(text.chars, 50)
           /\ use_library_fallback /\ LANGDETECT_AVAILABLE
           /\ library_calls = 1 /\ library_result.success
           /\ result.method = "library"
           /\ result.language = library_result.language

(* ------------------------------- C6 ------------------------------------ *)

\* C6: for every valid text with analyzable characters whose target-script
\* ratio is at most 30% (exactly 30% and 0% included) the returned language
\* is "en", whatever the configuration and the fallback.
C6_EnglishAtMostThreshold ==
    (Returned /\ ValidText(text) /\ RatioAtMost(text.chars, 30)) =>
        (result.success = TRUE /\ result.language = "en")

\* A text with ratio exactly 30% (3 of 10) came back "en".
C6_Witness ==
    /\ Returned
    /\ ValidText(text)
    /\ Total(text.chars) = 10
    /\ Cardinality(Target(text.chars)) = 3
    /\ use_fallback
    /\ result.language = "en"

(* ------------------------------- C7 ------------------------------------ *)

\* C7: the confidence of every returned result lies in [0, 99], and it is
\* exactly 50 only when the text has no analyzable character.
C7_ConfidenceRange ==
    Returned =>
        /\ 0 <= result.confidence
        /\ result.confidence <= 99 * Scale
        /\ (result.confidence = 50 * Scale) => Total(text.chars) = 0

\* A text without analyzable characters came back with confidence 50.
C7_Witness ==
    /\ Returned
    /\ result.success = TRUE
    /\ result.confidence = 50 * Scale
    /\ Total(text.chars) = 0

(* ------------------------------- C8 ------------------------------------ *)

\* C8: when the script classifier's confidence for a valid text exceeds 70,
\* detect returns success with exactly the script classifier's language and
\* confidence and method "unicode", and the fallback is not invoked.
C8_PrimaryPass ==
    (Returned /\ ValidText(text) /\ unicode_result.confidence > 70 * Scale) =>
        /\ result.success = TRUE
        /\ result.language = unicode_result.language
        /\ result.confidence = unicode_result.confidence
        /\ result.method = "unicode"
        /\ unicode_calls = 1
        /\ library_calls = 0
        /\ detected_lang = ""

\* A script confidence just above 70 (5 of 9: 75.6) was accepted at once,
\* with the fallback enabled.
C8_Witness ==
    /\ Returned
    /\ use_fallback
    /\ unicode_result.confidence > 70 * Scale
    /\ unicode_result.confidence < 80 * Scale
    /\ result.method = "unicode"
    /\ library_calls = 0

(* ------------------------------- C9 ------------------------------------ *)

\* C9: the fallback is invoked only if validation passed, the script
\* confidence is <= 70 and the fallback is enabled at construction and
\* available; a script confidence of exactly 70 does go to it; and when it
\* reports success detect returns its language and confidence with method
\* "library".
C9_FallbackPass ==
    /\ (library_calls > 0) =>
           /\ ValidText(text)
           /\ validation_error = None
           /\ unicode_calls = 1
           /\ unicode_result.confidence <= 70 * Scale
           /\ use_library_fallback
           /\ LANGDETECT_AVAILABLE
    /\ (/\ Returned
        /\ ValidText(text)
        /\ unicode_result.confidence = 70 * Scale
        /\ use_library_fallback
        /\ LANGDETECT_AVAILABLE) => library_calls = 1
    /\ (Returned /\ library_calls > 0 /\ library_result.success) =>
           /\ result.success = TRUE
           /\ result.language = library_result.language
           /\ result.confidence = library_result.confidence
           /\ result.method = "library"

\* A script confidence of exactly 70 went to the fallback, which answered.
C9_Witness ==
    /\ Returned
    /\ unicode_result.confidence = 70 * Scale
    /\ library_calls = 1
    /\ library_result.success
    /\ result.method = "library"

(* ------------------------------- C10 ----------------------------------- *)

\* C10: when the script confidence is <= 70 and the fallback was skipped or
\* reported success = false, detect returns success with the script
\* classifier's own language and confidence and method "unicode".
C10_DefaultStage ==
    (/\ Returned
     /\ ValidText(text)
     /\ unicode_result.confidence <= 70 * Scale
     /\ (library_calls = 0 \/ ~library_result.success)) =>
        /\ result.success = TRUE
        /\ result.language = unicode_result.language
        /\ result.confidence = unicode_result.confidence
        /\ unicode_result = DetectByUnicode(text.chars)
        /\ result.method = "unicode"
        /\ result.error = None

\* The fallback was tried, raised, and the low-confidence script result stood.
C10_Witness ==
    /\ Returned
    /\ ValidText(text)
    /\ unicode_result.confidence <= 70 * Scale
    /\ library_calls = 1
    /\ ~library_result.success
    /\ result.method = "unicode"
    /\ result.language = "ur"

(* ------------------------------- C11 ----------------------------------- *)

\* The dict _detect_by_library must return when langdetect reports `answer`.
MappedAs(answer, dict) ==
    /\ (answer = "ur") =>
           dict = [success |-> TRUE, language |-> "ur", confidence |-> 95 * Scale]
    /\ (answer = "en") =>
           dict = [success |-> TRUE, language |-> "en", confidence |-> 95 * Scale]
    /\ (answer \notin {"ur", "en", "LangDetectException", ""}) =>
           dict = [success |-> TRUE, language |-> "en", confidence |-> 60 * Scale]

\* C11: when langdetect reports 'ur' the fallback returns (success, 'ur', 95),
\* for 'en' (success, 'en', 95), and for every other code (success, 'en', 60):
\* an unsupported code is coerced to 'en', never rejected.
C11_FallbackMapping ==
    /\ (library_calls > 0) => MappedAs(detected_lang, library_result)
    /\ direct.called => MappedAs(direct.answer, direct.dict)

\* langdetect reported Arabic during a detect call; the result is 'en' at 60.
C11_Witness ==
    /\ Returned
    /\ detected_lang = "ar"
    /\ result.success = TRUE
    /\ result.language = "en"
    /\ result.confidence = 60 * Scale
    /\ result.method = "library"

(* ------------------------------- C12 ----------------------------------- *)

\* C12: when langdetect raises on the text during a detect call, the failure
\* is caught: nothing is raised out of detect, the fallback counts as having
\* failed for this call, and detect returns the script classifier's result.
C12_LibraryFailureCaught ==
    /\ (library_calls > 0 /\ detected_lang = "LangDetectException") =>
           /\ library_result.success = FALSE
           /\ exception = ""
           /\ pc \in {"default", "done", "quick_done"}
    /\ (Ended /\ detected_lang = "LangDetectException") =>
           /\ Returned
           /\ result.success = TRUE
           /\ result.method = "unicode"
           /\ result.language = unicode_result.language
           /\ result.confidence = unicode_result.confidence
           /\ unicode_result = DetectByUnicode(text.chars)

\* langdetect raised on a text the script classifier called Urdu at <= 70.
C12_Witness ==
    /\ Returned
    /\ detected_lang = "LangDetectException"
    /\ unicode_result.language = "ur"
    /\ result.language = "ur"
    /\ result.method = "unicode"

(* ------------------------------- C13 ----------------------------------- *)

\* C13: when langdetect is unavailable or the detector was built with
\* use_library_fallback = False, the fallback classifier reports
\* success = false whenever it runs, detect skips it without an error, and
\* every successful result has method "unicode" with the script classifier's
\* language and confidence.
C13_Original ==
    (~LANGDETECT_AVAILABLE \/ ~use_library_fallback) =>
        /\ direct.called => direct.dict.success = FALSE
        /\ (library_calls > 0) => library_result.success = FALSE
        /\ (Ended /\ ValidText(text)) => (Returned /\ exception = "")
        /\ (Returned /\ result.success = TRUE) =>
               /\ result.method = "unicode"
               /\ result.language = DetectByUnicode(text.chars).language
               /\ result.confidence = DetectByUnicode(text.chars).confidence

\* C13, amended: when langdetect is unavailable the fallback classifier
\* reports success = false whenever it runs; when it is unavailable or the
\* detector was built with use_library_fallback = False, detect never runs
\* it, raises nothing for a validated text, and every successful result has
\* method "unicode" with the script classifier's language and confidence.
C13_FallbackOff ==
    /\ ~LANGDETECT_AVAILABLE =>
           /\ direct.called => direct.dict = NoLibraryDict
           /\ (library_calls > 0) => library_result.success = FALSE
    /\ (~LANGDETECT_AVAILABLE \/ ~use_library_fallback) =>
           /\ ~use_fallback
           /\ library_calls = 0
           /\ detected_lang = ""
           /\ (Ended /\ ValidText(text)) => (Returned /\ exception = "")
           /\ (Returned /\ result.success = TRUE) =>
                  /\ result.method = "unicode"
                  /\ result.error = None
                  /\ result.language = DetectByUnicode(text.chars).language
                  /\ result.confidence = DetectByUnicode(text.chars).confidence

\* langdetect is installed but the detector was built without the fallback:
\* a low-confidence text came back from the script classifier.
C13_Witness ==
    /\ Returned
    /\ LANGDETECT_AVAILABLE
    /\ ~use_library_fallback
    /\ result.success = TRUE
    /\ result.confidence <= 70 * Scale
    /\ result.method = "unicode"

(* ------------------------------- C14 ----------------------------------- *)

\* The ratio of chars is defined and lies in [p/100, 1 - p/100].
RatioInBand(chars, p) ==
    /\ Total(chars) > 0
    /\ p * Total(chars) <= 100 * Cardinality(Target(chars))
    /\ 100 * Cardinality(Target(chars)) <= (100 - p) * Total(chars)

QuickEnded == pc \in {"quick_done", "quick_raised"}

\* C15: quick_detect surfaces no error for any input, None and non-strings
\* included: it returns 'en' when detect's result has success = false and
\* that result's language otherwise, so its value is always 'en' or 'ur'.
C15_QuickDetectNeverFails ==
    QuickEnded =>
        /\ pc = "quick_done"
        /\ exception = ""
        /\ quick = (IF result.success THEN result.language ELSE "en")
        /\ quick \in {"en", "ur"}

(* ------------------------------- C16 ----------------------------------- *)

\* C16: get_supported_languages returns the list ['en', 'ur'], and the
\* language of every successful detect result, on the primary, fallback and
\* default paths, is one of its two elements.
C16_LanguageSupported ==
    /\ GetSupportedLanguages = <<"en", "ur">>
    /\ (Returned /\ result.success = TRUE) =>
           \E i \in 1..Len(GetSupportedLanguages) :
               result.language = GetSupportedLanguages[i]

\* langdetect reported French and detect answered with a supported language.
C16_Witness ==
    /\ Returned
    /\ detected_lang = "fr"
    /\ result.success = TRUE
    /\ result.method = "library"
    /\ result.language = "en"

(* ------------------------------- C17 ----------------------------------- *)

\* C17: detect called twice on the same input returns the same result in
\* every field, also when the calls go through the statistical fallback.
C17_SameInputSameResult ==
    (Returned /\ first_result # NoResult) => result = first_result

(* ------------------------------- C18 ----------------------------------- *)

\* C18: on a successful result text_sample is the first 100 characters of
\* the untrimmed input and char_count its length; on a failed result
\* text_sample is "" and char_count 0.
C18_SampleAndCount ==
    Returned =>
        /\ (result.success = TRUE) =>
               /\ Len(result.text_sample) = Min(100, Len(text.chars))
               /\ \A i \in 1..Len(result.text_sample) :
                      result.text_sample[i] = text.chars[i]
               /\ result.char_count = Len(text.chars)
        /\ (result.success = FALSE) =>
               (result.text_sample = <<>> /\ result.char_count = 0)

\* A text of a space and 101 letters: the sample is its first 100 characters,
\* the leading space included, and the count is 102.
C18_Witness ==
    /\ Returned
    /\ result.success = TRUE
    /\ Len(text.chars) = 102
    /\ text.chars[1] = 32
    /\ Len(result.text_sample) = 100
    /\ result.text_sample[1] = 32
    /\ result.char_count = 102

(* ------------------------------- C19 ----------------------------------- *)

\* |ratio - 50%| of a pair of counts, times its total (an integer).
Distance(c) ==
    IF 100 * c.urdu >= 50 * c.total
    THEN 100 * c.urdu - 50 * c.total
    ELSE 50 * c.total - 100 * c.urdu

\* The ratios of a and b lie on the same side of 50%.
SameSide(a, b) ==
    \/ 100 * a.urdu <= 50 * a.total /\ 100 * b.urdu <= 50 * b.total
    \/ 100 * a.urdu >= 50 * a.total /\ 100 * b.urdu >= 50 * b.total

\* The ratio of a is at most as far from 50% as the ratio of b.
NotFarther(a, b) == Distance(a) * b.total <= Distance(b) * a.total

\* The ratio of c lies strictly between the 30% threshold and 50%.
BetweenThresholdAndMidpoint(c) ==
    30 * c.total < 100 * c.urdu /\ 100 * c.urdu < 50 * c.total

\* Both texts have analyzable characters and both have been classified.
BothClassified ==
    Len(analysis) = 2 /\ counts[1].total > 0 /\ counts[2].total > 0

\* The confidence of every classified text with total > 0 is in [20, 99].
ConfidenceWithinBounds ==
    \A k \in 1..Len(analysis) :
        counts[k].total > 0 =>
            /\ 20 * Scale <= analysis[k].confidence
            /\ analysis[k].confidence <= 99 * Scale

\* C19: for total > 0 the confidence grows with the distance of the ratio
\* from 50%: for two ratios on the same side of 50%, the one not farther
\* from 50% has the smaller or equal confidence; and it is within [20, 99].
C19_Original ==
    /\ ConfidenceWithinBounds
    /\ (BothClassified /\ SameSide(counts[1], counts[2])
            /\ NotFarther(counts[1], counts[2])) =>
           analysis[1].confidence <= analysis[2].confidence

\* C19, amended: the same, except when the ratio farther from 50% lies
\* strictly between 30% and 50%; there the classifier says 'ur' with
\* confidence ratio + 20, which falls as the ratio moves away from 50%.
C19_MonotoneOutsideBand ==
    /\ ConfidenceWithinBounds
    /\ (BothClassified /\ SameSide(counts[1], counts[2])
            /\ NotFarther(counts[1], counts[2])
            /\ ~BetweenThresholdAndMidpoint(counts[2])) =>
           analysis[1].confidence <= analysis[2].confidence
    /\ (BothClassified /\ BetweenThresholdAndMidpoint(counts[1])
            /\ BetweenThresholdAndMidpoint(counts[2])
            /\ NotFarther(counts[1], counts[2])) =>
           analysis[1].confidence >= analysis[2].confidence

\* 60% and 80% Urdu: the ratio farther from 50% has the larger confidence.
C19_Witness ==
    /\ BothClassified
    /\ counts[1] = [total |-> 5, urdu |-> 3]
    /\ counts[2] = [total |-> 5, urdu |-> 4]
    /\ analysis[1].confidence < analysis[2].confidence

(* ------------------------------- C20 ----------------------------------- *)

\* The decision the claim gives for the counts c is a.
DecidedAs(c, a) ==
    IF c.total = 0
    THEN a = [language |-> "en", confidence |-> 50 * Scale]
    ELSE IF 100 * c.urdu > 30 * c.total
         THEN /\ a.language = "ur"
              /\ a.confidence * c.total =
                     Min((100 * c.urdu + 20 * c.total) * Scale,
                         99 * Scale * c.total)
    ELSE /\ a.language = "en"
         /\ a.confidence * c.total =
                Min((100 * (c.total - c.urdu) + 20 * c.total) * Scale,
                    99 * Scale * c.total)

\* C20: the script classifier returns (en, 50) when total = 0; otherwise,
\* with pct = target / total * 100, (ur, min(pct + 20, 99)) when pct > 30 and
\* (en, min((100 - pct) + 20, 99)) when pct <= 30, for all 0 <= target <= total.
C20_ClassifierTable ==
    \A k \in 1..Len(analysis) : DecidedAs(counts[k], analysis[k])

\* 3 of 10 (exactly 30%) is English at 90; 4 of 10 is Urdu at 60.
C20_Witness ==
    /\ Len(analysis) = 2
    /\ counts[1] = [total |-> 10, urdu |-> 3]
    /\ counts[2] = [total |-> 10, urdu |-> 4]
    /\ analysis[1] = [language |-> "en", confidence |-> 90 * Scale]
    /\ analysis[2] = [language |-> "ur", confidence |-> 60 * Scale]

(* ------------------------------- C22 ----------------------------------- *)

\* The call is at one of the four stages of detect.
InStage == pc \in {"validate", "primary", "fallback", "default"}

\* Validate -> Primary -> Fallback -> Default, then the return.
StageRank(p) ==
    CASE p = "validate" -> 1
      [] p = "primary" -> 2
      [] p = "fallback" -> 3
      [] p = "default" -> 4
      [] OTHER -> 5

\* Each classifier has run at most once in the call, and not at all when
\* validation failed.
ClassifiersRunAtMostOnce ==
    /\ unicode_calls <= 1
    /\ library_calls <= 1
    /\ (Returned /\ result.success = FALSE) =>
           (unicode_calls = 0 /\ library_calls = 0)

\* A step taken at a stage leads to a later stage or to the return.
StagesOnlyForward ==
    InStage => (pc' \in {"primary", "fallback", "default", "done"}
                    /\ StageRank(pc') > StageRank(pc))

\* A result, once produced, is not replaced while the call lasts.
ResultProducedOnce ==
    result # NoResult => (result' = result \/ pc' = "idle")

\* The stage order and the run counts of C22, without the statement on how
\* the call ends.
C22_StagesInOrder ==
    /\ []ClassifiersRunAtMostOnce
    /\ [][StagesOnlyForward]_vars
    /\ [][ResultProducedOnce]_vars

\* C22: a detect call runs Validate, Primary, Fallback, Default in this
\* order without going back, each classifier at most once and not after a
\* validation failure, and every call ends by returning exactly one result.
C22_StagesInOrderOneResult ==
    /\ []ClassifiersRunAtMostOnce
    /\ [][StagesOnlyForward]_vars
    /\ [][ResultProducedOnce]_vars
    /\ [](Ended => (Returned /\ result # NoResult /\ exception = ""))

(* ------------------------------- C23 ----------------------------------- *)

\* self.use_fallback is what the constructor computed.
FallbackAsConstructed ==
    use_fallback = UseFallback(use_library_fallback, LANGDETECT_AVAILABLE)

\* The script classifier has run in this call and was not confident.
ScriptInconclusive ==
    unicode_calls = 1 /\ ~IsConfident(unicode_result.confidence)

\* The call before this one, on the same detector, went to the fallback and
\* the fallback failed: it returned the script result at a confidence <= 70
\* although the fallback was configured.
FallbackFailedBefore ==
    /\ first_result # NoResult
    /\ first_result.success = TRUE
    /\ first_result.method = "unicode"
    /\ ~IsConfident(first_result.confidence)
    /\ use_fallback

\* C23: no detect or is_mixed_language call changes use_fallback; a fallback
\* failure counts for its call only, and every call whose script confidence
\* is <= 70 runs the fallback again when it is configured.
C23_FallbackConfigurationKept ==
    /\ []FallbackAsConstructed
    /\ [][use_fallback' = use_fallback]_vars
    /\ []((pc \in {"default", "done"} /\ ScriptInconclusive /\ use_fallback) =>
              (library_calls = 1 /\ detected_lang # ""))

\* The fallback failed on the first call; on the second call it was run
\* again and this time decided the result.
C23_Witness ==
    /\ FallbackFailedBefore
    /\ Returned
    /\ ScriptInconclusive
    /\ library_calls = 1
    /\ result.method = "library"
    /\ use_fallback

(* ------------------------------- C25 ----------------------------------- *)

\* The four conditions in the order of the claim: absent, not a string,
\* empty after trimming, shorter than 3 after trimming.
ValidationConditions(x) ==
    << x.kind = "none",
       x.kind # "str",
       x.kind = "str" /\ Len(Strip(x.chars)) = 0,
       x.kind = "str" /\ Len(Strip(x.chars)) < 3 >>

\* Their messages, in the same order.
ValidationMessages ==
    << "Text cannot be None",
       "Text must be a string",
       "Text cannot be empty or only whitespace",
       "Text too short for reliable detection (minimum 3 characters)" >>

\* The message of the first condition that holds for x; None if none holds.
FirstFailure(x) ==
    LET holds == {i \in 1..4 : ValidationConditions(x)[i]}
    IN  IF holds = {} THEN None
        ELSE ValidationMessages[CHOOSE i \in holds : \A j \in holds : i <= j]

\* C25: the error of _validate_input is the message of the first of the four
\* conditions that holds, in the order absent, not a string, empty after
\* trimming, too short after trimming; the four messages are pairwise distinct.
C25_FirstConditionDecides ==
    /\ \A k \in 1..Len(errors) : errors[k] = FirstFailure(samples[k])
    /\ Cardinality({ValidationMessages[i] : i \in 1..4}) = 4

\* Two spaces are both empty and too short after trimming: the error is the
\* 'empty' one.
C25_Witness ==
    /\ Len(errors) >= 1
    /\ samples[1] = Str(<<32, 32>>)
    /\ ValidationConditions(samples[1])[3]
    /\ ValidationConditions(samples[1])[4]
    /\ errors[1] = "Text cannot be empty or only whitespace"

(* ------------------------------- C26 ----------------------------------- *)

\* The punctuation set of the claim: . , ! ? ; : ' " ( ) - [ ] { }
ClaimedPunctuation ==
    {46, 44, 33, 63, 59, 58, 39, 34, 40, 41, 45, 91, 93, 123, 125}

\* The four inclusive ranges of the claim: 0600-06FF, 0750-077F, FB50-FDFF,
\* FE70-FEFF.
ClaimedTargetRanges ==
    (1536..1791) \cup (1872..1919) \cup (64336..65023) \cup (65136..65279)

\* Positions of the characters that are neither whitespace nor punctuation.
CountedPositions(chars) ==
    {i \in 1..Len(chars) : ~IsSpace(chars[i]) /\ chars[i] \notin ClaimedPunctuation}

\* Those of them whose code point lies in one of the four ranges.
TargetPositions(chars) ==
    {i \in CountedPositions(chars) : chars[i] \in ClaimedTargetRanges}

\* A digit or a symbol other than the skipped punctuation.
DigitOrSymbol(c) == c \in (48..57) \cup {35, 47, 64, 95}

\* C26: total_chars counts exactly the characters that are neither whitespace
\* nor in the punctuation set, urdu_chars exactly those of them in one of the
\* four inclusive ranges, each once; a digit or symbol adds to total only, and
\* "123 456 789" has ratio 0% and is classified 'en'.
C26_CharacterCounting ==
    \A k \in 1..Len(scripts) :
        scripts[k].raised = "" =>
            LET chars == samples[k].chars
            IN  /\ scripts[k].total_chars = Cardinality(CountedPositions(chars))
                /\ scripts[k].urdu_chars = Cardinality(TargetPositions(chars))
                /\ (Len(chars) = 1 /\ DigitOrSymbol(chars[1])) =>
                       (scripts[k].total_chars = 1 /\ scripts[k].urdu_chars = 0)
                /\ chars = DigitsText =>
                       /\ scripts[k].total_chars = 9
                       /\ scripts[k].urdu_chars = 0
                       /\ scripts[k].dict.language = "en"

\* "123 456 789" went through the loop: nine counted characters, none of
\* them in the target ranges, classified 'en'.
C26_Witness ==
    /\ Len(scripts) >= 1
    /\ samples[1] = Str(DigitsText)
    /\ scripts[1].raised = ""
    /\ scripts[1].total_chars = 9
    /\ scripts[1].urdu_chars = 0
    /\ scripts[1].dict.language = "en"

(* ------------------------------- C27 ----------------------------------- *)

\* The counts of the script classifier put the ratio in [20%, 80%].
ClassifierCountsInBand(script) ==
    /\ script.total_chars > 0
    /\ 20 * script.total_chars <= 100 * script.urdu_chars
    /\ 100 * script.urdu_chars <= 80 * script.total_chars

\* C27: the counts is_mixed_language computes for a text are the counts the
\* script classifier computes for it, its answer is the one these counts
\* give, and it is the same whether or not other calls came before it.
C27_MixedCountsAgree ==
    /\ \A k \in 1..Len(mixes) :
           mixes[k].raised = "" =>
               /\ mixes[k].total_chars = scripts[k].total_chars
               /\ mixes[k].urdu_chars = scripts[k].urdu_chars
               /\ mixes[k].value = ClassifierCountsInBand(scripts[k])
    /\ (Len(mixes) = 2 /\ samples[1] = samples[2]) => mixes[1] = mixes[2]

\* One Latin and one Urdu letter, passed twice: both calls count 1 of 2 and
\* answer true, as the counts of the script classifier do.
C27_Witness ==
    /\ Len(mixes) = 2
    /\ samples[1] = Str(<<72, 1587>>)
    /\ samples[2] = samples[1]
    /\ scripts[2].total_chars = 2
    /\ scripts[2].urdu_chars = 1
    /\ mixes[2].total_chars = 2
    /\ mixes[2].urdu_chars = 1
    /\ mixes[2].value = TRUE

(* ------------------------------- C29 ----------------------------------- *)

\* The call has got past the primary pass without a result.
FallbackStageReached == pc \in {"fallback", "default"} \/ library_calls > 0

\* No analyzable character, or a target-script percentage in (30, 50].
Inconclusive(chars) ==
    \/ Total(chars) = 0
    \/ RatioAbove(chars, 30) /\ RatioAtMost(chars, 50)

\* C29: the fallback stage is reached only for valid texts without
\* analyzable characters or with a percentage in (30, 50]; for every other
\* valid text the script confidence exceeds 70 (and is at least 90 when the
\* verdict is 'en'), the result is the script result, and the fallback does
\* not run.
C29_FallbackOnlyWhenInconclusive ==
    /\ FallbackStageReached => (ValidText(text) /\ Inconclusive(text.chars))
    /\ (Returned /\ ValidText(text) /\ ~Inconclusive(text.chars)) =>
           /\ library_calls = 0
           /\ result.method = "unicode"
           /\ result.language = unicode_result.language
           /\ result.confidence = unicode_result.confidence
           /\ result.confidence > 70 * Scale
           /\ (result.language = "en") => result.confidence >= 90 * Scale
           /\ RatioAtMost(text.chars, 30) => result.language = "en"

\* 3 Urdu letters of 10 (exactly 30%), fallback configured: the script
\* verdict 'en' at 90 is returned and the library is not consulted.
C29_Witness ==
    /\ Returned
    /\ use_fallback
    /\ Total(text.chars) = 10
    /\ Cardinality(Target(text.chars)) = 3
    /\ library_calls = 0
    /\ result.method = "unicode"
    /\ result.language = "en"
    /\ result.confidence = 90 * Scale

(* ------------------------------- C30 ----------------------------------- *)

\* The second argument is the first one between two whitespace-only strings.
PaddedPair ==
    /\ Len(samples) = 2
    /\ \E a \in Paddings, b \in Paddings :
           samples[2] = Str(a \o samples[1].chars \o b)

\* C30: for a text t and whitespace-only a and b, _validate_input gives the
\* same verdict for a+t+b as for t, _detect_by_unicode the same language and
\* confidence, and is_mixed_language the same boolean.
C30_PaddingInvariance ==
    PaddedPair =>
        /\ Len(errors) = 2 => errors[2] = errors[1]
        /\ Len(scripts) = 2 => scripts[2].dict = scripts[1].dict
        /\ Len(mixes) = 2 => mixes[2].value = mixes[1].value

\* "HsH" (one Urdu letter of three) and the same text after "\n\t" and
\* before a no-break space: both valid, both 'ur' at the same confidence,
\* both mixed.
C30_Witness ==
    /\ PaddedPair
    /\ Len(mixes) = 2
    /\ samples[1] = Str(<<72, 1587, 72>>)
    /\ samples[2] = Str(<<10, 9, 72, 1587, 72, 160>>)
    /\ errors[1] = None
    /\ errors[2] = None
    /\ scripts[2].dict.language = "ur"
    /\ scripts[2].dict = scripts[1].dict
    /\ mixes[1].value = TRUE
    /\ mixes[2].value = TRUE

(* ------------------------------- C24 ----------------------------------- *)

\* What detect returns for the text t when it runs alone on this detector
\* and langdetect, if consulted, answers `answer`.
DetectAlone(t, answer) ==
    IF FirstFailure(t) # None THEN ErrorResult(FirstFailure(t))
    ELSE LET script == DetectByUnicode(t.chars)
             library == DetectByLibrary(LANGDETECT_AVAILABLE, answer)
         IN  IF script.confidence > 70 * Scale THEN UnicodeResult(t, script)
             ELSE IF use_fallback /\ library.success THEN LibraryResult(t, library)
             ELSE DefaultResult(t, script)

\* The call of frame f has ended as it ends when run alone.
EndedAsAlone(f) ==
    IF f.op = "mixed"
    THEN f.pc = "done" /\ f.value = RatioInBand(f.text.chars, f.threshold)
    ELSE IF f.text.kind \in {"none", "int"}
         THEN f.pc = "raised" /\ f.exception = "TypeError"
    ELSE /\ f.pc = "done"
         /\ f.exception = ""
         /\ f.result = DetectAlone(f.text, f.detected_lang)

\* A step changes the frame of one thread at most, and never the
\* configuration of the detector.
OneFrameWritten ==
    /\ config' = config
    /\ \A i \in Threads :
           threads'[i] # threads[i] =>
               \A j \in Threads \ {i} : threads'[j] = threads[j]

\* C24: concurrent detect and is_mixed_language calls on a shared detector
\* do not interfere: under every interleaving each call ends as it ends when
\* run alone, and no step writes state shared between the calls.
C24_NoInterference ==
    /\ [](\A i \in Threads :
              threads[i].pc \in {"done", "raised"} => EndedAsAlone(threads[i]))
    /\ [][OneFrameWritten]_vars

\* Thread 1 went to the fallback and got 'ur' from langdetect for "sHH"
\* while thread 2 is between the two loops of is_mixed_language on "Hs".
C24_Witness ==
    /\ threads[1].pc = "done"
    /\ threads[1].op = "detect"
    /\ threads[1].text = Str(<<1587, 72, 72>>)
    /\ threads[1].result.method = "library"
    /\ threads[1].result.language = "ur"
    /\ threads[2].pc = "mixed_urdu"
    /\ threads[2].text = Str(<<72, 1587>>)

(* ------------------------------- C21 ----------------------------------- *)

\* None, a non-string, empty or whitespace-only text, or raw text longer
\* than 10000 characters.
RejectedInput(x) ==
    \/ x.kind = "none"
    \/ x.kind # "str"
    \/ \A i \in 1..Len(x.chars) : IsSpace(x.chars[i])
    \/ Len(x.chars) > 10000

\* success false, text "", both counts 0, and an error message.
FailureShape(r) ==
    /\ r.success = FALSE
    /\ r.text = <<>>
    /\ r.char_count = 0
    /\ r.word_count = 0
    /\ r.error # None

\* process has returned its TextInputResult.
ProcessReturned == input_call.pc = "done"

\* C21: process never raises; for None, a non-string, empty or
\* whitespace-only text, raw text longer than 10000 characters, and for an
\* exception inside it, it returns success false, text "", char_count 0,
\* word_count 0 and an error; on success error is None and char_count is the
\* length of the cleaned text.
C21_ProcessNeverRaises ==
    /\ input_call.raised = ""
    /\ ProcessReturned =>
           /\ (RejectedInput(input_call.original_text) \/ input_call.caught # "") =>
                  FailureShape(input_call.result)
           /\ (input_call.result.success = TRUE) =>
                  /\ input_call.result.error = None
                  /\ input_call.result.char_count = Len(input_call.result.text)
                  /\ input_call.result.text = input_call.text.chars
           /\ (input_call.result.success = FALSE) => FailureShape(input_call.result)

\* 10001 letters: rejected as too long, in-band.
C21_Witness ==
    /\ ProcessReturned
    /\ input_call.original_text.kind = "str"
    /\ Len(input_call.original_text.chars) = 10001
    /\ input_call.original_text.chars[1] = 72
    /\ FailureShape(input_call.result)
    /\ input_call.caught = ""

(* ------------------------------- C28 ----------------------------------- *)

\* extract_from_bytes returned an OCRResult.
OcrReturned == ocr_call.pc = "done"

\* The image bytes load and Tesseract's text for them is not empty once
\* stripped.
OcrHasText == ocr_call.image = "loads" /\ Strip(ocr_call.output) # <<>>

\* Every returned result is a failure.
C28_EveryResultFails ==
    OcrReturned => /\ ocr_call.result.success = FALSE
                   /\ ocr_call.result.text = <<>>
                   /\ ocr_call.result.char_count = 0
                   /\ ocr_call.result.language = ocr_call.language
                   /\ ocr_call.result.image_path = ocr_call.filename

\* C28: when the image bytes load and OCR yields non-empty text,
\* extract_from_bytes returns success = true, the stripped OCR output as
\* text and the requested language; it returns success = false only when
\* loading raises or the OCR text is empty.
C28_SuccessWhenTextFound ==
    OcrReturned =>
        /\ OcrHasText =>
               /\ ocr_call.result.success = TRUE
               /\ ocr_call.result.text = Strip(ocr_call.output)
               /\ ocr_call.result.language = ocr_call.language
        /\ (ocr_call.result.success = FALSE) =>
               \/ ocr_call.image # "loads"
               \/ Strip(ocr_call.output) = <<>>

=============================================================================
